---- MODULE Spec2Model ----
(***************************************************************************)
(* Coordinate-descent Lasso / Elastic Net (scikits/learn/glm/              *)
(* coordinate_descent.py): the model wrappers Lasso and ElasticNet, their   *)
(* fit methods, and the path drivers lasso_path and enet_path.  The solver  *)
(* kernels lasso_coordinate_descent / enet_coordinate_descent (module       *)
(* cd_fast) and the duality gap are imported by the file; they are modelled *)
(* from sections 4.1 and 4.2 of the specification.                          *)
(*                                                                         *)
(* Numbers: every float64 is a fixed-point number, an integer count of      *)
(* 1/Scale units; products and quotients round toward zero, so arithmetic   *)
(* is finite-precision as in the program.  Arrays live in a heap and are    *)
(* named by references, so that in-place mutation, aliasing and .copy()     *)
(* are what they are in Python.  Objects are attribute dictionaries.        *)
(***************************************************************************)
EXTENDS Integers, Sequences, FiniteSets, TLC

VARIABLES models, heap, call, path, client, done

vars == <<models, heap, call, path, client, done>>

----------------------------------------------------------------------------
(* float64 arithmetic                                                      *)

Scale == 1000

Fx(n) == n * Scale

Quot(a, b) == IF a >= 0 THEN a \div b ELSE -((-a) \div b)

FMul(a, b) == Quot(a * b, Scale)

FDiv(a, b) == Quot(a * Scale, b)

Half(a) == Quot(a, 2)

Abs(a) == IF a >= 0 THEN a ELSE -a

Sign(a) == IF a > 0 THEN 1 ELSE IF a < 0 THEN -1 ELSE 0

Max2(a, b) == IF a >= b THEN a ELSE b

RECURSIVE SumSeq(_)
SumSeq(s) == IF s = <<>> THEN 0 ELSE Head(s) + SumSeq(Tail(s))

RECURSIVE MaxSeq(_)
MaxSeq(s) == IF s = <<>> THEN 0 ELSE Max2(Head(s), MaxSeq(Tail(s)))

Dot(a, b) == SumSeq([i \in 1..Len(a) |-> FMul(a[i], b[i])])

L1Norm(w) == SumSeq([j \in 1..Len(w) |-> Abs(w[j])])

Zeros(n) == [j \in 1..n |-> 0]

----------------------------------------------------------------------------
(* Arrays.  X is the sequence of its columns: X[j][i] is row i of column j. *)

NoRef == 0

NCols(X) == Len(X)

NRows(X) == IF Len(X) = 0 THEN 0 ELSE Len(X[1])

Alloc(h, v) == Append(h, v)

NewRef(h) == Len(h) + 1

----------------------------------------------------------------------------
(* Objects: an object is the function from its attribute names to values.  *)

HasAttr(m, name) == name \in DOMAIN m

SetAttr(m, name, v) == (name :> v) @@ m

LinearModel(w0) == [coef_ |-> w0]

Lasso(alpha, w0) == ("cls" :> "Lasso") @@ ("alpha" :> alpha) @@ LinearModel(w0)

ElasticNet(alpha, beta, w0) ==
    ("cls" :> "ElasticNet") @@ ("alpha" :> alpha) @@ ("beta" :> beta) @@ LinearModel(w0)

----------------------------------------------------------------------------
(* The solver kernels (cd_fast), from section 4.1.                          *)
(* Every input below has alpha >= 0, beta >= 0 and maxit >= 1, so the       *)
(* solver's InvalidParameter failure never arises and is left out.          *)

DimensionMismatch(X, y, w) == NRows(X) # Len(y) \/ NCols(X) # Len(w)

Residual(X, y, w) ==
    [i \in 1..Len(y) |-> y[i] - SumSeq([j \in 1..Len(w) |-> FMul(X[j][i], w[j])])]

(* Mutation: the residual is started at y whatever the initial weights.   *)
ResidualFromZero(X, y, w) == y

InitialResidual(X, y, w) == IF w = Zeros(Len(w)) THEN y ELSE Residual(X, y, w)

SoftThreshold(rho, alpha) == Sign(rho) * Max2(Abs(rho) - alpha, 0)

lasso_update(Xj, rho, alpha) ==
    LET den == Dot(Xj, Xj)
    IN  IF den = 0 THEN 0 ELSE FDiv(SoftThreshold(rho, alpha), den)

enet_update(Xj, rho, alpha, beta) ==
    LET den == Dot(Xj, Xj) + beta
    IN  IF den = 0 THEN 0 ELSE FDiv(SoftThreshold(rho, alpha), den)

(* One coordinate: add back, correlate, closed-form update, subtract.      *)
CoordinateUpdate(solver, X, w, R, j, alpha, beta) ==
    LET Xj  == X[j]
        Rp  == [i \in 1..Len(R) |-> R[i] + FMul(Xj[i], w[j])]
        rho == Dot(Xj, Rp)
        wj  == IF solver = "lasso" THEN lasso_update(Xj, rho, alpha)
                                   ELSE enet_update(Xj, rho, alpha, beta)
    IN  [w |-> [w EXCEPT ![j] = wj],
         R |-> [i \in 1..Len(R) |-> Rp[i] - FMul(Xj[i], wj)]]

GapDue(n_iter, max_iter, period) == n_iter % period = 0 \/ n_iter = max_iter

----------------------------------------------------------------------------
(* The objective and duality gap (utils), from section 4.2.                 *)

lasso_objective(R, w, alpha) == Half(Dot(R, R)) + FMul(alpha, L1Norm(w))

enet_objective(R, w, alpha, beta) ==
    Half(Dot(R, R)) + FMul(alpha, L1Norm(w)) + Half(FMul(beta, Dot(w, w)))

DualScaling(alpha, dual_norm) ==
    IF dual_norm <= alpha THEN Scale ELSE FDiv(alpha, dual_norm)

ClipGap(g) == Max2(g, 0)

lasso_dual_gap(X, y, w, R, alpha) ==
    LET dual_norm == MaxSeq([j \in 1..Len(X) |-> Abs(Dot(X[j], R))])
        s    == DualScaling(alpha, dual_norm)
        dual == FMul(s, Dot(R, y)) - Half(FMul(FMul(s, s), Dot(R, R)))
    IN  ClipGap(lasso_objective(R, w, alpha) - dual)

enet_dual_gap(X, y, w, R, alpha, beta) ==
    LET dual_norm == MaxSeq([j \in 1..Len(X) |-> Abs(Dot(X[j], R) - FMul(beta, w[j]))])
        s    == DualScaling(alpha, dual_norm)
        dual == FMul(s, Dot(R, y))
                  - Half(FMul(FMul(s, s), Dot(R, R) + FMul(beta, Dot(w, w))))
    IN  ClipGap(enet_objective(R, w, alpha, beta) - dual)

DualGap(solver, X, y, w, R, alpha, beta) ==
    IF solver = "lasso" THEN lasso_dual_gap(X, y, w, R, alpha)
                        ELSE enet_dual_gap(X, y, w, R, alpha, beta)

----------------------------------------------------------------------------
(* fit: lines 53-65 (Lasso) and 80-92 (ElasticNet).                         *)

GapCheckPeriod == 10

(* Mutation: fit allocates fresh zero weights on every call.              *)
AlwaysAlloc(m) == TRUE

NeedsAlloc(m) == m.coef_ = NoRef

(* Mutation: the lazily allocated weights are not zero.                    *)
OnesWeights(X) == [j \in 1..NCols(X) |-> Scale]

(* Mutation: the weights get one entry per row of X (X.shape[0]).          *)
ZerosPerRow(X) == Zeros(NRows(X))

InitialWeights(X) == Zeros(NCols(X))

FitHeap(m, X, h) == IF NeedsAlloc(m) THEN Alloc(h, InitialWeights(X)) ELSE h

FitCoef(m, X, h) == IF NeedsAlloc(m) THEN NewRef(h) ELSE m.coef_

LassoArgs(m, X, Y, maxit, tol) ==
    [solver |-> "lasso", w |-> m.coef_, alpha |-> m.alpha, beta |-> 0,
     X |-> X, y |-> Y, max_iter |-> maxit, period |-> GapCheckPeriod, tol |-> tol]

(* Mutation: alpha is passed where the solver expects beta.                *)
ENetArgsAlphaAsBeta(m, X, Y, maxit, tol) ==
    [solver |-> "enet", w |-> m.coef_, alpha |-> m.alpha, beta |-> m.alpha,
     X |-> X, y |-> Y, max_iter |-> maxit, period |-> GapCheckPeriod, tol |-> tol]

ENetArgs(m, X, Y, maxit, tol) ==
    [solver |-> "enet", w |-> m.coef_, alpha |-> m.alpha, beta |-> m.beta,
     X |-> X, y |-> Y, max_iter |-> maxit, period |-> GapCheckPeriod, tol |-> tol]

(* Mutation: maxit and the gap-check period change places in the call.     *)
SolverArgsSwapped(m, X, Y, maxit, tol) ==
    [(IF m.cls = "Lasso" THEN LassoArgs(m, X, Y, maxit, tol)
                         ELSE ENetArgs(m, X, Y, maxit, tol))
        EXCEPT !.max_iter = GapCheckPeriod, !.period = maxit]

SolverArgs(m, X, Y, maxit, tol) ==
    IF m.cls = "Lasso" THEN LassoArgs(m, X, Y, maxit, tol)
                       ELSE ENetArgs(m, X, Y, maxit, tol)

FitStore(m, coef, gap) == SetAttr(SetAttr(m, "coef_", coef), "dual_gap_", gap)

(* The frame of a fit call: the solver's arguments and locals, and what the *)
(* model held when fit was entered.                                        *)
Frame(id, m, a, h, maxit, tol) ==
    [id |-> id, solver |-> a.solver, X |-> a.X, y |-> a.y, w |-> a.w,
     alpha |-> a.alpha, beta |-> a.beta, max_iter |-> a.max_iter,
     period |-> a.period, tol |-> a.tol, maxit |-> maxit, fit_tol |-> tol,
     coef_before |-> m.coef_,
     w_before |-> IF m.coef_ = NoRef THEN <<>> ELSE h[m.coef_],
     w_init |-> h[a.w], R |-> <<>>, n_iter |-> 0, j |-> 1, n_updates |-> 0,
     gap |-> a.tol + Scale, gap_iter |-> 0, trace |-> <<>>, pc |-> "enter", exc |-> ""]

NoCall ==
    [id |-> "", solver |-> "", X |-> <<>>, y |-> <<>>, w |-> NoRef,
     alpha |-> 0, beta |-> 0, max_iter |-> 0, period |-> 0, tol |-> 0,
     maxit |-> 0, fit_tol |-> 0, coef_before |-> NoRef, w_before |-> <<>>,
     w_init |-> <<>>, R |-> <<>>, n_iter |-> 0, j |-> 1, n_updates |-> 0,
     gap |-> 0, gap_iter |-> 0, trace |-> <<>>, pc |-> "idle", exc |-> ""]

Idle == call.pc \in {"idle", "returned", "raised"}

(* fit up to the solver's entry: lazy allocation, argument passing, the     *)
(* solver's shape check and its initial residual.  ms is the models as the  *)
(* caller left them.                                                       *)
FitEnter(ms, id, X, Y, maxit, tol) ==
    LET m  == ms[id]
        h1 == FitHeap(m, X, heap)
        m1 == SetAttr(m, "coef_", FitCoef(m, X, heap))
        a  == SolverArgs(m1, X, Y, maxit, tol)
        f  == Frame(id, m, a, h1, maxit, tol)
    IN  /\ Idle
        /\ heap' = h1
        /\ models' = [ms EXCEPT ![id] = m1]
        /\ call' = IF DimensionMismatch(a.X, a.y, h1[a.w])
                   THEN [f EXCEPT !.pc = "raised", !.exc = "DimensionMismatch"]
                   ELSE [f EXCEPT !.pc = "update",
                                  !.R = InitialResidual(a.X, a.y, h1[a.w])]

(* One coordinate of a sweep; w is mutated in place.                        *)
Update ==
    /\ call.pc = "update"
    /\ LET r    == CoordinateUpdate(call.solver, call.X, heap[call.w], call.R,
                                    call.j, call.alpha, call.beta)
           last == call.j = NCols(call.X)
       IN  /\ heap' = [heap EXCEPT ![call.w] = r.w]
           /\ call' = [call EXCEPT !.R = r.R,
                                   !.n_updates = @ + 1,
                                   !.j = IF last THEN 1 ELSE @ + 1,
                                   !.n_iter = IF last THEN @ + 1 ELSE @,
                                   !.trace = IF last THEN Append(@, r.w) ELSE @,
                                   !.pc = IF last THEN "check" ELSE "update"]
    /\ UNCHANGED <<models, path, client, done>>

(* The end of a sweep: evaluate the gap when due and stop when it is within *)
(* tol; the loop ends after max_iter sweeps.                                *)
EndSweep ==
    /\ call.pc = "check"
    /\ LET due  == GapDue(call.n_iter, call.max_iter, call.period)
           g    == IF due THEN DualGap(call.solver, call.X, call.y, heap[call.w],
                                       call.R, call.alpha, call.beta)
                          ELSE call.gap
           stop == (due /\ g <= call.tol) \/ call.n_iter >= call.max_iter
       IN  call' = [call EXCEPT !.gap = g,
                                !.gap_iter = IF due THEN call.n_iter ELSE @,
                                !.pc = IF stop THEN "return" ELSE "update"]
    /\ UNCHANGED <<models, heap, path, client, done>>

(* The record of a completed fit: its frame and the weights it stored.      *)
FitSummary(c, h) == [frame |-> c, w |-> h[c.w]]

(* The solver returns (w, gap); fit stores both (lines 61-62, 88-89).       *)
FitReturn ==
    /\ call.pc = "return"
    /\ models' = [models EXCEPT ![call.id] = FitStore(@, call.w, call.gap)]
    /\ call' = [call EXCEPT !.pc = "returned"]
    /\ done' = [done EXCEPT ![call.id] = Append(@, FitSummary(call', heap))]
    /\ UNCHANGED <<heap, path, client>>

----------------------------------------------------------------------------
(* The path drivers: lasso_path (lines 98-115), enet_path (lines 117-133).  *)

AlphaMax(X, y) == MaxSeq([j \in 1..NCols(X) |-> Abs(Dot(X[j], y))])

(* Mutation: alpha is divided by the factor instead of multiplied.         *)
GrowAlpha(alpha, factor) == FDiv(alpha, factor)

DecayAlpha(alpha, factor) == FMul(alpha, factor)

PathModel(kind, alpha, beta) ==
    IF kind = "lasso" THEN Lasso(alpha, NoRef) ELSE ElasticNet(alpha, beta, NoRef)

(* The attribute each driver reads its snapshot from (lines 111, 129).      *)
SnapshotAttr(kind) == IF kind = "lasso" THEN "coef_" ELSE "w"

(* array.copy(): a new array with the same contents.                        *)
(* Mutation: the snapshot is the live array itself, not a copy.            *)
AliasRef(ref, h) == ref

CopyRef(ref, h) == NewRef(h)

CopyHeap(ref, h) == Alloc(h, h[ref])

NoClient == [pc |-> "none", X |-> <<>>, y |-> <<>>, maxit |-> 0, tol |-> 0,
             fitted |-> {}, n |-> 0]

NoPath ==
    [pc |-> "none", kind |-> "", X |-> <<>>, y |-> <<>>, factor |-> 0,
     n_alphas |-> 0, beta |-> 0, maxit |-> 0, tol |-> 0, alpha_max |-> 0,
     i |-> 0, alphas |-> <<>>, weights |-> <<>>, exc |-> ""]

PathCall(kind, X, y, factor, n_alphas, beta, maxit, tol) ==
    [NoPath EXCEPT !.pc = "call", !.kind = kind, !.X = X, !.y = y,
                   !.factor = factor, !.n_alphas = n_alphas, !.beta = beta,
                   !.maxit = maxit, !.tol = tol]

(* Lines 100-104 / 119-123: alpha_max, the shared model, the empty lists.   *)
PathEnter ==
    /\ path.pc = "call"
    /\ LET alpha_max == AlphaMax(path.X, path.y)
       IN  /\ models' = ("P" :> PathModel(path.kind, alpha_max, path.beta))
           /\ path' = [path EXCEPT !.pc = "loop", !.alpha_max = alpha_max]
    /\ done' = ("P" :> <<>>)
    /\ UNCHANGED <<heap, call, client>>

(* Lines 105-108 / 124-126: decay alpha and call fit on the shared model.   *)
PathStep ==
    /\ path.pc = "loop"
    /\ path.i < path.n_alphas
    /\ FitEnter([models EXCEPT !["P"] =
                    SetAttr(@, "alpha", DecayAlpha(@.alpha, path.factor))],
                "P", path.X, path.y, path.maxit, path.tol)
    /\ path' = [path EXCEPT !.pc = "fit"]
    /\ UNCHANGED <<client, done>>

(* Lines 110-111 / 128-129: record alpha and a copy of the weights.  An     *)
(* attribute the model does not have raises AttributeError; an exception of *)
(* fit propagates.                                                         *)
PathRecord ==
    /\ path.pc = "fit"
    /\ call.pc \in {"returned", "raised"}
    /\ LET model == models["P"]
           attr  == SnapshotAttr(path.kind)
       IN  IF call.pc = "raised"
           THEN /\ path' = [path EXCEPT !.pc = "raised", !.exc = call.exc]
                /\ heap' = heap
           ELSE IF ~HasAttr(model, attr)
           THEN /\ path' = [path EXCEPT !.pc = "raised", !.exc = "AttributeError",
                                        !.alphas = Append(@, model.alpha)]
                /\ heap' = heap
           ELSE /\ path' = [path EXCEPT !.pc = "loop", !.i = @ + 1,
                                        !.alphas = Append(@, model.alpha),
                                        !.weights = Append(@, CopyRef(model[attr], heap))]
                /\ heap' = CopyHeap(model[attr], heap)
    /\ UNCHANGED <<models, call, client, done>>

(* Lines 113-115 / 131-133: return (alphas, weights).                       *)
PathReturn ==
    /\ path.pc = "loop"
    /\ path.i = path.n_alphas
    /\ path' = [path EXCEPT !.pc = "done"]
    /\ UNCHANGED <<models, heap, call, client, done>>

----------------------------------------------------------------------------
(* Inputs of the path drivers.                                             *)

MaxAlphas == 3

Column(a, b) == <<Fx(a), Fx(b)>>

Columns == {Column(1, 0), Column(0, 1), Column(1, 1), Column(2, 1), Column(0, 0)}

Designs == {<<c1, c2>> : c1 \in Columns, c2 \in Columns}

Targets == {Column(2, 1), Column(1, -1), Column(-1, 2)}

Factors == {Scale \div 2, (9 * Scale) \div 10}

MaxIters == {1, 3, 11}

Tols == {1, Scale \div 10}

Betas == {0, Fx(1)}

Init ==
    /\ models = <<>>
    /\ heap = <<>>
    /\ call = NoCall
    /\ client = NoClient
    /\ done = <<>>
    /\ \E kind \in {"lasso", "enet"}, X \in Designs, y \in Targets,
          factor \in Factors, n_alphas \in 0..MaxAlphas,
          maxit \in MaxIters, tol \in Tols :
         \E beta \in IF kind = "lasso" THEN {Fx(1)} ELSE Betas :
            path = PathCall(kind, X, y, factor, n_alphas, beta, maxit, tol)

Next ==
    \/ PathEnter
    \/ PathStep
    \/ Update
    \/ EndSweep
    \/ FitReturn
    \/ PathRecord
    \/ PathReturn

Spec == Init /\ [][Next]_vars

----------------------------------------------------------------------------
(* Direct use of the models: a Lasso and an ElasticNet built with the same  *)
(* alpha and (their own copy of) the same w0, each fitted on the same data. *)

NoW0 == <<>>

W0s == {NoW0, <<Zeros(2)>>, <<Column(1, -1)>>}

FitDesigns == {<<Column(1, 0), Column(0, 1)>>, <<Column(1, 0), Column(1, 1)>>,
               <<Column(1, 1), Column(2, 1)>>, <<Column(2, 1), Column(1, 1)>>,
               <<Column(0, 0), Column(1, 1)>>, <<Column(1, 1), Column(1, 1)>>,
               <<Column(2, 1), Column(0, 1)>>, <<Column(0, 1), Column(2, 1)>>}

FitAlphas(X, y) == {0, Scale \div 2, AlphaMax(X, y), AlphaMax(X, y) + Fx(1)}

(* Lasso(alpha, w0) and ElasticNet(alpha, beta, w0) over a heap that holds  *)
(* one array per model when w0 is given.                                    *)
BuildHeap(w0) == IF w0 = NoW0 THEN <<>> ELSE <<w0[1], w0[1]>>

BuildModels(alpha, beta, w0) ==
    ("L" :> Lasso(alpha, IF w0 = NoW0 THEN NoRef ELSE 1))
        @@ ("E" :> ElasticNet(alpha, beta, IF w0 = NoW0 THEN NoRef ELSE 2))

InitFit ==
    /\ call = NoCall
    /\ path = NoPath
    /\ done = ("L" :> <<>>) @@ ("E" :> <<>>)
    /\ \E X \in FitDesigns, y \in Targets, maxit \in MaxIters, tol \in Tols,
          beta \in Betas, w0 \in W0s :
         \E alpha \in FitAlphas(X, y) :
            /\ heap = BuildHeap(w0)
            /\ models = BuildModels(alpha, beta, w0)
            /\ client = [NoClient EXCEPT !.pc = "ready", !.X = X, !.y = y,
                                         !.maxit = maxit, !.tol = tol]

(* model.fit(X, y, maxit, tol) on a model not fitted yet.                   *)
ClientFit(id) ==
    /\ client.pc = "ready"
    /\ id \notin client.fitted
    /\ FitEnter(models, id, client.X, client.y, client.maxit, client.tol)
    /\ client' = [client EXCEPT !.fitted = @ \cup {id}, !.n = @ + 1]
    /\ UNCHANGED <<path, done>>

Fit == \E id \in DOMAIN models : ClientFit(id)

NextFit ==
    \/ Fit
    \/ Update
    \/ EndSweep
    \/ FitReturn

SpecFit == InitFit /\ [][NextFit]_vars

----------------------------------------------------------------------------
(* Fits on data of any shape: X is r x c, y has n entries, the model was    *)
(* built with no w0 or a w0 of one or two entries.                          *)

MaxDimFits == 2

Shapes == {1, 2}

DimDesigns == {[j \in 1..c |-> [i \in 1..r |-> Fx(1)]] : r \in Shapes, c \in Shapes}

DimTargets == {[i \in 1..n |-> Fx(i)] : n \in Shapes}

DimW0s == {NoW0} \cup {<<Zeros(n)>> : n \in Shapes}

InitDim ==
    /\ call = NoCall
    /\ path = NoPath
    /\ done = ("L" :> <<>>) @@ ("E" :> <<>>)
    /\ \E w0 \in DimW0s, beta \in Betas :
            /\ heap = BuildHeap(w0)
            /\ models = BuildModels(Scale \div 2, beta, w0)
            /\ client = [NoClient EXCEPT !.pc = "shapes", !.maxit = 1, !.tol = 1]

(* model.fit(X, y, maxit, tol) with the caller's X and y.                   *)
ClientFitOn(id, X, y) ==
    /\ client.pc = "shapes"
    /\ client.n < MaxDimFits
    /\ FitEnter(models, id, X, y, client.maxit, client.tol)
    /\ client' = [client EXCEPT !.n = @ + 1]
    /\ UNCHANGED <<path, done>>

FitOn == \E id \in DOMAIN models, X \in DimDesigns, y \in DimTargets : ClientFitOn(id, X, y)

NextDim ==
    \/ FitOn
    \/ Update
    \/ EndSweep
    \/ FitReturn

SpecDim == InitDim /\ [][NextDim]_vars

----------------------------------------------------------------------------
(* Properties of the path drivers, stated for Spec.                         *)

Running == call.pc \in {"update", "check", "return"}

RECURSIVE PathAlpha(_, _, _)
PathAlpha(alpha_max, factor, i) ==
    IF i = 0 THEN alpha_max ELSE DecayAlpha(PathAlpha(alpha_max, factor, i - 1), factor)

(* C1: enet_path with n_alphas >= 1 never ends in an exception, and when it *)
(* has returned it holds exactly n_alphas (alpha, weights) pairs, the i-th  *)
(* alpha being alpha_max * factor^i and the i-th weights a copy of what fit *)
(* stored at step i.                                                        *)
C1_EnetPathReturnsPairs ==
    (path.kind = "enet" /\ path.n_alphas >= 1) =>
        /\ path.pc # "raised"
        /\ path.pc = "done" =>
              /\ Len(path.alphas) = path.n_alphas
              /\ Len(path.weights) = path.n_alphas
              /\ \A i \in 1..path.n_alphas :
                    /\ path.alphas[i] = PathAlpha(path.alpha_max, path.factor, i)
                    /\ heap[path.weights[i]] = done["P"][i].w

(* The alpha before step i: alpha_max for the first step.                   *)
AlphaBefore(i) == IF i = 1 THEN path.alpha_max ELSE path.alphas[i - 1]

(* C2 as stated: the alphas of lasso_path are strictly decreasing from      *)
(* alpha_0 = alpha_max, each the previous one times factor, whatever        *)
(* alpha_max is.                                                            *)
C2_AlphasStrictlyDecreasing ==
    path.kind = "lasso" =>
        \A i \in 1..Len(path.alphas) :
            /\ path.alphas[i] = DecayAlpha(AlphaBefore(i), path.factor)
            /\ path.alphas[i] < AlphaBefore(i)

(* C2 amended: each alpha of lasso_path is the previous one times factor    *)
(* and is never larger; it is strictly smaller while the previous alpha is  *)
(* positive, and 0 once it is 0, so alpha_max = 0 gives alphas all 0.       *)
C2_AlphasNonIncreasing ==
    path.kind = "lasso" =>
        \A i \in 1..Len(path.alphas) :
            /\ path.alphas[i] = DecayAlpha(AlphaBefore(i), path.factor)
            /\ path.alphas[i] <= AlphaBefore(i)
            /\ AlphaBefore(i) > 0 => path.alphas[i] < AlphaBefore(i)
            /\ AlphaBefore(i) = 0 => path.alphas[i] = 0

C2_Witness ==
    /\ path.kind = "lasso"
    /\ path.pc = "done"
    /\ Len(path.alphas) >= 2
    /\ path.alpha_max > 0
    /\ path.alphas[2] < path.alphas[1]

(* C3: every snapshot recorded by lasso_path keeps, through all later       *)
(* steps and at return, the weights fit stored at the step that recorded it. *)
C3_SnapshotsIndependent ==
    path.kind = "lasso" =>
        /\ Len(path.weights) = path.i
        /\ \A i \in 1..Len(path.weights) :
              heap[path.weights[i]] = done["P"][i].w

C3_Witness ==
    /\ path.kind = "lasso"
    /\ Len(path.weights) >= 1
    /\ Running
    /\ call.n_updates >= 1
    /\ heap[models["P"].coef_] # heap[path.weights[1]]

(* C4: fit hands the solver a zero vector only on a model without weights;  *)
(* otherwise the very array, with the very contents, that the previous fit  *)
(* stored.  In a path the first step starts from zero, every later step     *)
(* from the result of the step before.                                      *)
C4_WarmStartChain ==
    (path.pc # "none" /\ call.pc # "idle") =>
        LET k == IF Running THEN Len(done[call.id]) ELSE Len(done[call.id]) - 1
        IN  /\ call.coef_before = NoRef <=> k = 0
            /\ k = 0 => call.w_init = Zeros(NCols(call.X))
            /\ k > 0 => /\ call.w = done[call.id][k].frame.w
                        /\ call.w = call.coef_before
                        /\ call.w_init = done[call.id][k].w

C4_Witness ==
    /\ path.kind = "lasso"
    /\ Running
    /\ Len(done["P"]) >= 1
    /\ call.n_updates >= 1
    /\ call.w_init # Zeros(NCols(call.X))

(* C10: whenever a coordinate update is complete, and so wherever the gap   *)
(* is evaluated, the running residual is y - X.w for the current weights,   *)
(* from the first sweep of a zero start through every warm-started fit.     *)
C10_ResidualInvariant ==
    (Running \/ call.pc = "returned") =>
        call.R = Residual(call.X, call.y, heap[call.w])

C10_Witness ==
    /\ call.pc = "check"
    /\ call.n_iter >= 2
    /\ Len(done[call.id]) >= 1
    /\ call.w_init # Zeros(NCols(call.X))
    /\ heap[call.w] # call.w_init

----------------------------------------------------------------------------
(* Properties of fit and the solver, stated for SpecFit.                    *)

(* The gap of weights w for the model's own penalty, on the call's data.    *)
GapOf(c, m, w) ==
    DualGap(c.solver, c.X, c.y, w, Residual(c.X, c.y, w),
            m.alpha, IF HasAttr(m, "beta") THEN m.beta ELSE 0)

(* C5: the gap fit stores is never negative, and when the solver stopped    *)
(* before maxit sweeps it is at most tol and is the gap of the stored       *)
(* weights.                                                                 *)
C5_GapCertificate ==
    call.pc = "returned" =>
        LET m == models[call.id]
        IN  /\ m.dual_gap_ >= 0
            /\ call.n_iter < call.maxit =>
                  /\ m.dual_gap_ <= call.fit_tol
                  /\ m.dual_gap_ = GapOf(call, m, heap[m.coef_])

C5_Witness ==
    /\ call.pc = "returned"
    /\ call.n_iter < call.maxit
    /\ heap[models[call.id].coef_] # Zeros(NCols(call.X))
    /\ heap[models[call.id].coef_] # call.w_init
    /\ models[call.id].dual_gap_ <= call.fit_tol

(* C6: the solver never runs more than maxit sweeps, and a fit that used    *)
(* all maxit sweeps stores the gap evaluated on that last sweep: the gap of *)
(* the stored weights, above tol when they have not converged.              *)
C6_FinalGapObserved ==
    /\ call.n_iter <= call.maxit
    /\ (call.pc = "returned" /\ call.n_iter = call.maxit) =>
          LET m == models[call.id]
              g == GapOf(call, m, heap[m.coef_])
          IN  /\ call.gap_iter = call.maxit
              /\ m.dual_gap_ = g
              /\ g > call.fit_tol => m.dual_gap_ > call.fit_tol

C6_Witness ==
    /\ call.pc = "returned"
    /\ call.n_iter = call.maxit
    /\ call.maxit % GapCheckPeriod # 0
    /\ call.maxit > GapCheckPeriod
    /\ models[call.id].dual_gap_ > call.fit_tol

(* C8: an ElasticNet with beta = 0 and a Lasso, fitted with the same alpha  *)
(* from the same initial weights on the same data with the same maxit and   *)
(* tol, pass through the same weights sweep by sweep, stop at the same      *)
(* sweep and store the same weights and the same gap.                       *)
C8_EnetBetaZeroIsLasso ==
    (/\ Len(done["L"]) = 1
     /\ Len(done["E"]) = 1
     /\ models["E"].beta = 0
     /\ models["E"].alpha = models["L"].alpha
     /\ done["E"][1].frame.w_init = done["L"][1].frame.w_init
     /\ done["E"][1].frame.X = done["L"][1].frame.X
     /\ done["E"][1].frame.y = done["L"][1].frame.y
     /\ done["E"][1].frame.maxit = done["L"][1].frame.maxit
     /\ done["E"][1].frame.fit_tol = done["L"][1].frame.fit_tol) =>
        /\ done["E"][1].frame.trace = done["L"][1].frame.trace
        /\ done["E"][1].frame.n_iter = done["L"][1].frame.n_iter
        /\ done["E"][1].w = done["L"][1].w
        /\ heap[models["E"].coef_] = heap[models["L"].coef_]
        /\ models["E"].dual_gap_ = models["L"].dual_gap_

C8_Witness ==
    /\ Len(done["L"]) = 1
    /\ Len(done["E"]) = 1
    /\ models["E"].beta = 0
    /\ models["L"].alpha > 0
    /\ done["L"][1].frame.n_iter >= 3
    /\ done["L"][1].frame.trace[1] # done["L"][1].frame.trace[2]
    /\ done["L"][1].w # Zeros(2)
    /\ models["L"].dual_gap_ > 0

(* C9: a Lasso whose alpha is at least alpha_max = max_j |X[:,j] . y|,      *)
(* fitted from the lazily allocated zero vector, has all-zero weights after *)
(* the first sweep; no coordinate ever leaves zero.                         *)
C9_ZeroAtAlphaMax ==
    (/\ call.solver = "lasso"
     /\ call.coef_before = NoRef
     /\ call.pc # "raised"
     /\ models[call.id].alpha >= AlphaMax(call.X, call.y)) =>
        /\ heap[call.w] = Zeros(NCols(call.X))
        /\ call.n_iter >= 1 => call.trace[1] = Zeros(NCols(call.X))

C9_Witness ==
    /\ call.solver = "lasso"
    /\ call.coef_before = NoRef
    /\ call.pc = "returned"
    /\ AlphaMax(call.X, call.y) > 0
    /\ models[call.id].alpha = AlphaMax(call.X, call.y)
    /\ call.trace[1] = Zeros(NCols(call.X))

----------------------------------------------------------------------------
(* Properties of fit on mismatched shapes, stated for SpecDim.              *)

(* The mismatch of a fit call: X against the weights the model held when    *)
(* fit was entered, or X against y.                                         *)
EntryMismatch ==
    \/ call.coef_before # NoRef /\ NCols(call.X) # Len(call.w_before)
    \/ NRows(call.X) # Len(call.y)

Rejected ==
    /\ call.pc = "raised"
    /\ call.exc = "DimensionMismatch"
    /\ call.n_updates = 0

(* C7 as stated: a mismatched fit fails with DimensionMismatch before any   *)
(* coordinate update, and the model's weight vector is afterwards what it   *)
(* was before the call.                                                     *)
C7_MismatchLeavesModelUnchanged ==
    (call.pc # "idle" /\ EntryMismatch) =>
        /\ Rejected
        /\ models[call.id].coef_ = call.coef_before
        /\ call.coef_before # NoRef => heap[call.coef_before] = call.w_before

(* C7 amended: a mismatched fit fails with DimensionMismatch before any     *)
(* coordinate update; a model that had weights keeps them unchanged, and a  *)
(* model that had none is left with the lazily allocated zero vector, one   *)
(* entry per column of X.                                                   *)
C7_MismatchRejected ==
    (call.pc # "idle" /\ EntryMismatch) =>
        /\ Rejected
        /\ IF call.coef_before # NoRef
           THEN /\ models[call.id].coef_ = call.coef_before
                /\ heap[call.coef_before] = call.w_before
           ELSE heap[models[call.id].coef_] = Zeros(NCols(call.X))

C7_Witness ==
    /\ Rejected
    /\ Len(done[call.id]) >= 1
    /\ call.coef_before # NoRef
    /\ NCols(call.X) # Len(call.w_before)
    /\ NRows(call.X) = Len(call.y)

====
